---- MODULE Spec2Model ----
(***************************************************************************)
(* A model of the scalar reverse-mode autodiff engine of engine.py: the    *)
(* Value node, its operators, and Value.backward.                          *)
(*                                                                         *)
(* Numbers.  A Python number is modelled exactly as a rational <<n, d>>    *)
(* in lowest terms with d > 0.  A number of Python type complex (the       *)
(* result of a negative base raised to a fractional power) is the single   *)
(* value Cx; complex is absorbing for +, * in Python, and so is Cx here.   *)
(* Results that are irrational (exp, tanh and square roots of most         *)
(* arguments) are not representable: the actions that produce them are     *)
(* explored only on the arguments whose result is rational.                *)
(***************************************************************************)
EXTENDS Integers, Sequences, FiniteSets

\* ------------------------------------------------------------------ bounds

\* Most calls (leaf constructor, operator, backward) a behaviour of Spec makes.
MaxSteps == 3

\* Most calls (leaf constructor, operator) with which a behaviour of SpecGrad
\* builds its graph.
MaxBuild == 3

\* Most nodes a behaviour of SpecGrad allocates.
MaxNodes == 4

\* Most backward calls a behaviour of SpecGrad makes.
MaxCalls == 2

\* ---------------------------------------------------------------- numbers

Abs(x) == IF x < 0 THEN -x ELSE x

RECURSIVE GCD(_, _)
GCD(a, b) == IF b = 0 THEN a ELSE GCD(b, a % b)

\* The rational n/d (d # 0) in lowest terms with a positive denominator.
Norm(n, d) ==
    LET g == GCD(Abs(n), Abs(d))
        s == IF d < 0 THEN -1 ELSE 1
    IN  <<(s * n) \div g, (s * d) \div g>>

Rat(n) == <<n, 1>>

\* A number of Python type complex.
Cx == <<1, 0>>

IsCx(x) == x[2] = 0

\* x + y on Python numbers.
RAdd(x, y) ==
    IF IsCx(x) \/ IsCx(y) THEN Cx
    ELSE Norm(x[1] * y[2] + y[1] * x[2], x[2] * y[2])

\* x * y on Python numbers.
RMul(x, y) ==
    IF IsCx(x) \/ IsCx(y) THEN Cx
    ELSE Norm(x[1] * y[1], x[2] * y[2])

\* x > 0 on real Python numbers.
RPos(x) == x[1] > 0

RNeg(x) == RMul(x, Rat(-1))

IsSquare(n) == \E r \in 0..n : r * r = n

ISqrt(n) == CHOOSE r \in 0..n : r * r = n

RECURSIVE IntPow(_, _)
IntPow(b, k) == IF k = 0 THEN 1 ELSE b * IntPow(b, k - 1)

\* A power that never raises.
PowRaises_Never(x, e) == FALSE

\* x ** e raises ZeroDivisionError: a zero base and a negative exponent.
PowRaises(x, e) == x[1] = 0 /\ e[1] < 0

\* x ** e is a rational or complex: e is an integer, or a half-integer and x
\* is negative (complex result) or the square of a rational.
PowExact(x, e) ==
    /\ ~IsCx(x)
    /\ e[2] \in {1, 2}
    /\ e[2] = 2 => (x[1] < 0 \/ (IsSquare(x[1]) /\ IsSquare(x[2])))

\* x ** e on Python numbers, where PowExact(x, e) and ~PowRaises(x, e).
PyPow(x, e) ==
    IF e[2] = 2 /\ x[1] < 0 THEN Cx
    ELSE LET b == IF e[2] = 2 THEN <<ISqrt(x[1]), ISqrt(x[2])>> ELSE x
             k == Abs(e[1])
         IN  IF e[1] >= 0 THEN Norm(IntPow(b[1], k), IntPow(b[2], k))
             ELSE Norm(IntPow(b[2], k), IntPow(b[1], k))

\* math.exp(x) has a rational value at the rational argument 0 only.
ExpExact(x) == x = Rat(0)

\* math.exp(x), where ExpExact(x).
PyExp(x) == Rat(1)

\* max(0, x) on a real Python number.
PyMax0(x) == IF RPos(x) THEN x ELSE Rat(0)

\* -------------------------------------------------------------- input sets

\* Values given to the leaf constructor.
LeafVals == {Rat(-1), Rat(0), Rat(2)}

\* Raw numbers given as an operand of an operator.
RawVals == {Rat(3)}

\* Exponents given to power: integers and a non-integer.
Exponents == {Rat(-1), Rat(2), <<1, 2>>}

\* ------------------------------------------------------------------ state

VARIABLES
    nodes,   \* the Value objects allocated so far, by identity (index)
    err,     \* the exception the last call raised, "" when it returned
    pc,      \* "idle", or "rules" inside backward's loop over reversed(topo)
    root,    \* the node backward was last called on (0: never)
    topo,    \* backward's local list topo
    idx,     \* position in topo of the next node whose _backward runs
    ran,     \* history: the nodes whose _backward ran in the current call
    pre,     \* history: every node's grad when the current call started
    log,     \* history: the completed backward calls, [root, pre, post]
    last,    \* history: the call just made, when an operator: [op, lhs, rhs, out, size]
    steps    \* history: the number of calls made

vars == <<nodes, err, pc, root, topo, idx, ran, pre, log, last, steps>>

Ids == 1..Len(nodes)

\* Value.__init__: grad 0.0, _prev = set(_children), _backward = lambda: None.
\* self/other/exponent are the variables the _backward closure captures.
Value(data, children, op) ==
    [data |-> data, grad |-> Rat(0), prev |-> {children[i] : i \in 1..Len(children)},
     op |-> op,
     self |-> IF Len(children) >= 1 THEN children[1] ELSE 0,
     other |-> IF Len(children) >= 2 THEN children[2] ELSE 0,
     exponent |-> Rat(0)]

\* An operand of an operator: a node, or a raw number.
Node(i) == <<"v", i>>
Raw(x) == <<"n", x>>
IsNode(y) == y[1] = "v"

\* The outcome of a call on the heap ns: the heap after it, the exception
\* raised ("" for none) and the node returned (0 when it raised).
Ok(ns) == [ns |-> ns, err |-> "", out |-> Len(ns)]
Raise(ns, e) == [ns |-> ns, err |-> e, out |-> 0]

\* other = other if isinstance(other, Value) else Value(other)
Promote(ns, y) ==
    IF IsNode(y) THEN [ns |-> ns, out |-> y[2]]
    ELSE [ns |-> Append(ns, Value(y[2], <<>>, "")), out |-> Len(ns) + 1]

\* Value.__add__(self, other)
add(ns, a, y) ==
    LET p == Promote(ns, y)
    IN  Ok(Append(p.ns, Value(RAdd(p.ns[a].data, p.ns[p.out].data), <<a, p.out>>, "+")))

\* Value.__mul__(self, other)
mul(ns, a, y) ==
    LET p == Promote(ns, y)
    IN  Ok(Append(p.ns, Value(RMul(p.ns[a].data, p.ns[p.out].data), <<a, p.out>>, "*")))

\* A negation in place: self.data = -self.data; return self
neg_InPlace(ns, a) ==
    [ns |-> [ns EXCEPT ![a].data = RNeg(@)], err |-> "", out |-> a]

\* Value.__neg__(self): self * -1
neg(ns, a) == mul(ns, a, Raw(Rat(-1)))

\* Value.__pow__(self, other), other a number
pow(ns, a, e) ==
    IF PowRaises(ns[a].data, e) THEN Raise(ns, "ZeroDivisionError")
    ELSE Ok(Append(ns, [Value(PyPow(ns[a].data, e), <<a>>, "pow") EXCEPT !.exponent = e]))

\* -other, other a node or a raw number
Negated(ns, y) ==
    IF IsNode(y) THEN LET r == neg(ns, y[2]) IN [ns |-> r.ns, y |-> Node(r.out)]
    ELSE [ns |-> ns, y |-> Raw(RNeg(y[2]))]

\* Value.__sub__(self, other): self + (-other)
sub(ns, a, y) ==
    LET n == Negated(ns, y) IN add(n.ns, a, n.y)

\* Value.__truediv__(self, other): self * (other ** -1)
truediv(ns, a, y) ==
    IF IsNode(y)
    THEN LET r == pow(ns, y[2], Rat(-1))
         IN  IF r.err # "" THEN r ELSE mul(r.ns, a, Node(r.out))
    ELSE IF PowRaises(y[2], Rat(-1)) THEN Raise(ns, "ZeroDivisionError")
         ELSE mul(ns, a, Raw(PyPow(y[2], Rat(-1))))

\* Value.__radd__(self, other): self + other
radd(ns, a, x) == add(ns, a, Raw(x))

\* Value.__rmul__(self, other): self * other
rmul(ns, a, x) == mul(ns, a, Raw(x))

\* number - Value: float.__sub__ returns NotImplemented and Value defines no
\* __rsub__, so Python raises TypeError.
rsub(ns, a, x) == Raise(ns, "TypeError")

\* Value.__rtruediv__(self, other): other * (self ** -1); the product
\* number * Value is Value.__rmul__.
rtruediv(ns, a, x) ==
    LET r == pow(ns, a, Rat(-1))
    IN  IF r.err # "" THEN r ELSE rmul(r.ns, r.out, x)

\* Value.exp(self)
exp(ns, a) == Ok(Append(ns, Value(PyExp(ns[a].data), <<a>>, "exp")))

\* Value.tanh(self): (math.exp(2*x) - 1) / (math.exp(2*x) + 1)
tanh(ns, a) ==
    LET e2x == PyExp(RMul(Rat(2), ns[a].data))
    IN  Ok(Append(ns, Value(RMul(RAdd(e2x, Rat(-1)), PyPow(RAdd(e2x, Rat(1)), Rat(-1))),
                            <<a>>, "tanh")))

\* Value.relu(self); max(0, complex) raises TypeError.
relu(ns, a) ==
    IF IsCx(ns[a].data) THEN Raise(ns, "TypeError")
    ELSE Ok(Append(ns, Value(PyMax0(ns[a].data), <<a>>, "relu")))

\* ------------------------------------------------------------- backward

\* The states (visited, topo) build_topo(v) can end in when entered in st:
\* the iteration order of the set v._prev is any order.
RECURSIVE build_topo(_, _), VisitChildren(_, _)

\* build_topo with topo.append(v) before the loop over the children.
build_topo_AppendFirst(v, st) ==
    IF v \in st.visited THEN {st}
    ELSE VisitChildren(nodes[v].prev,
                       [visited |-> st.visited \cup {v}, topo |-> Append(st.topo, v)])

\* build_topo without visited.add(v).
build_topo_NoAdd(v, st) ==
    IF v \in st.visited THEN {st}
    ELSE {[s EXCEPT !.topo = Append(@, v)] : s \in VisitChildren(nodes[v].prev, st)}

build_topo(v, st) ==
    IF v \in st.visited THEN {st}
    ELSE {[s EXCEPT !.topo = Append(@, v)] :
            s \in VisitChildren(nodes[v].prev, [st EXCEPT !.visited = @ \cup {v}])}

\* for child in v._prev: if child not in visited: build_topo(child)
VisitChildren(rest, st) ==
    IF rest = {} THEN {st}
    ELSE UNION {UNION {VisitChildren(rest \ {c}, s) :
                         s \in (IF c \in st.visited THEN {st} ELSE build_topo(c, st))} :
                  c \in rest}

\* The lists topo that build_topo(self) can leave.
TopoOrders(r) == {s.topo : s \in build_topo(r, [visited |-> {}, topo |-> <<>>])}

\* The factor other*self.data**(other-1) of the pow rule raises.
RuleRaises(ns, o) ==
    /\ ns[o].op = "pow"
    /\ PowRaises(ns[ns[o].self].data, RAdd(ns[o].exponent, Rat(-1)))

\* x.grad = c
Accumulate_Overwrite(ns, x, c) == [ns EXCEPT ![x].grad = c]

\* x.grad += c
Accumulate(ns, x, c) == [ns EXCEPT ![x].grad = RAdd(@, c)]

\* __add__._backward: self.grad += 1.0*out.grad; other.grad += 1.0*out.grad
add_backward(ns, o) ==
    LET n1 == Accumulate(ns, ns[o].self, RMul(Rat(1), ns[o].grad))
    IN  Accumulate(n1, n1[o].other, RMul(Rat(1), n1[o].grad))

\* The product rule with each operand's own value for the other's.
mul_backward_OwnData(ns, o) ==
    LET n1 == Accumulate(ns, ns[o].self, RMul(ns[o].grad, ns[ns[o].self].data))
    IN  Accumulate(n1, n1[o].other, RMul(n1[o].grad, n1[n1[o].other].data))

\* __mul__._backward: self.grad += out.grad*other.data;
\* other.grad += out.grad*self.data
mul_backward(ns, o) ==
    LET n1 == Accumulate(ns, ns[o].self, RMul(ns[o].grad, ns[ns[o].other].data))
    IN  Accumulate(n1, n1[o].other, RMul(n1[o].grad, n1[n1[o].self].data))

\* __pow__._backward: self.grad += out.grad*(other*self.data**(other-1))
pow_backward(ns, o) ==
    Accumulate(ns, ns[o].self,
        RMul(ns[o].grad,
             RMul(ns[o].exponent,
                  PyPow(ns[ns[o].self].data, RAdd(ns[o].exponent, Rat(-1))))))

\* exp._backward: self.grad += out.grad*out.data
exp_backward(ns, o) == Accumulate(ns, ns[o].self, RMul(ns[o].grad, ns[o].data))

\* tanh._backward: self.grad += out.grad*(1-out.data**2)
tanh_backward(ns, o) ==
    Accumulate(ns, ns[o].self,
        RMul(ns[o].grad, RAdd(Rat(1), RNeg(PyPow(ns[o].data, Rat(2))))))

\* The relu rule with self.data >= 0 for self.data > 0.
relu_backward_AtZero(ns, o) ==
    Accumulate(ns, ns[o].self,
        IF ns[ns[o].self].data[1] >= 0 THEN ns[o].grad ELSE Rat(0))

\* relu._backward: self.grad += out.grad if self.data > 0 else 0
relu_backward(ns, o) ==
    Accumulate(ns, ns[o].self,
        IF RPos(ns[ns[o].self].data) THEN ns[o].grad ELSE Rat(0))

\* out._backward(), for out = ns[o], where ~RuleRaises(ns, o); a leaf's rule
\* is lambda: None.
RunBackward(ns, o) ==
    CASE ns[o].op = "+" -> add_backward(ns, o)
      [] ns[o].op = "*" -> mul_backward(ns, o)
      [] ns[o].op = "pow" -> pow_backward(ns, o)
      [] ns[o].op = "exp" -> exp_backward(ns, o)
      [] ns[o].op = "tanh" -> tanh_backward(ns, o)
      [] ns[o].op = "relu" -> relu_backward(ns, o)
      [] OTHER -> ns

Grads(ns) == [i \in 1..Len(ns) |-> ns[i].grad]

\* self.grad += 1.0
Seed_Add(ns, r) == [ns EXCEPT ![r].grad = RAdd(@, Rat(1))]

\* self.grad = 1.0
Seed(ns, r) == [ns EXCEPT ![r].grad = Rat(1)]

\* ---------------------------------------------------------------- actions

NoCall == [op |-> "", lhs |-> Raw(Rat(0)), rhs |-> Raw(Rat(0)), out |-> 0, size |-> 0]

Init ==
    /\ nodes = <<>>
    /\ err = ""
    /\ pc = "idle"
    /\ root = 0
    /\ topo = <<>>
    /\ idx = 0
    /\ ran = <<>>
    /\ pre = <<>>
    /\ log = <<>>
    /\ last = NoCall
    /\ steps = 0

\* The caller makes the operator call op on lhs and rhs, with outcome r.
Do(op, lhs, rhs, r) ==
    /\ pc = "idle"
    /\ nodes' = r.ns
    /\ err' = r.err
    /\ last' = [op |-> op, lhs |-> lhs, rhs |-> rhs, out |-> r.out, size |-> Len(nodes)]
    /\ steps' = steps + 1
    /\ UNCHANGED <<pc, root, topo, idx, ran, pre, log>>

\* Value(x)
LeafCall ==
    \E x \in LeafVals :
        Do("leaf", Raw(x), Raw(Rat(0)), Ok(Append(nodes, Value(x, <<>>, ""))))

\* a + b, a + x
AddCall ==
    \E a \in Ids :
        \/ \E b \in Ids : Do("add", Node(a), Node(b), add(nodes, a, Node(b)))
        \/ \E x \in RawVals : Do("add", Node(a), Raw(x), add(nodes, a, Raw(x)))

\* x + a
RAddCall ==
    \E a \in Ids, x \in RawVals : Do("add", Raw(x), Node(a), radd(nodes, a, x))

\* a * b, a * x
MulCall ==
    \E a \in Ids :
        \/ \E b \in Ids : Do("mul", Node(a), Node(b), mul(nodes, a, Node(b)))
        \/ \E x \in RawVals : Do("mul", Node(a), Raw(x), mul(nodes, a, Raw(x)))

\* x * a
RMulCall ==
    \E a \in Ids, x \in RawVals : Do("mul", Raw(x), Node(a), rmul(nodes, a, x))

\* -a
NegCall ==
    \E a \in Ids : Do("neg", Node(a), Raw(Rat(0)), neg(nodes, a))

\* a - b, a - x
SubCall ==
    \E a \in Ids :
        \/ \E b \in Ids : Do("sub", Node(a), Node(b), sub(nodes, a, Node(b)))
        \/ \E x \in RawVals : Do("sub", Node(a), Raw(x), sub(nodes, a, Raw(x)))

\* x - a
RSubCall ==
    \E a \in Ids, x \in RawVals : Do("sub", Raw(x), Node(a), rsub(nodes, a, x))

\* a ** e
PowCall ==
    \E a \in Ids, e \in Exponents :
        /\ PowExact(nodes[a].data, e)
        /\ Do("pow", Node(a), Raw(e), pow(nodes, a, e))

\* a / b, a / x
DivCall ==
    \E a \in Ids :
        \/ \E b \in Ids :
              /\ ~IsCx(nodes[b].data)
              /\ Do("div", Node(a), Node(b), truediv(nodes, a, Node(b)))
        \/ \E x \in RawVals : Do("div", Node(a), Raw(x), truediv(nodes, a, Raw(x)))

\* x / a
RDivCall ==
    \E a \in Ids, x \in RawVals :
        /\ ~IsCx(nodes[a].data)
        /\ Do("div", Raw(x), Node(a), rtruediv(nodes, a, x))

\* a.exp()
ExpCall ==
    \E a \in Ids :
        /\ ExpExact(nodes[a].data)
        /\ Do("exp", Node(a), Raw(Rat(0)), exp(nodes, a))

\* a.tanh()
TanhCall ==
    \E a \in Ids :
        /\ ExpExact(RMul(Rat(2), nodes[a].data))
        /\ Do("tanh", Node(a), Raw(Rat(0)), tanh(nodes, a))

\* a.relu()
ReluCall ==
    \E a \in Ids : Do("relu", Node(a), Raw(Rat(0)), relu(nodes, a))

\* r.backward() up to the loop: build_topo(self); self.grad = 1.0
BackwardCall ==
    \E r \in Ids :
        /\ pc = "idle"
        /\ \E t \in TopoOrders(r) : topo' = t /\ idx' = Len(t)
        /\ root' = r
        /\ pre' = Grads(nodes)
        /\ nodes' = Seed(nodes, r)
        /\ ran' = <<>>
        /\ err' = ""
        /\ pc' = "rules"
        /\ steps' = steps + 1
        /\ last' = NoCall
        /\ UNCHANGED log

\* One iteration of: for node in reversed(topo): node._backward().  A rule
\* that raises ends the call; backward's locals die with it.
RunRule ==
    /\ pc = "rules"
    /\ idx >= 1
    /\ IF RuleRaises(nodes, topo[idx])
       THEN /\ err' = "ZeroDivisionError"
            /\ pc' = "idle"
            /\ topo' = <<>>
            /\ idx' = 0
            /\ ran' = <<>>
            /\ pre' = <<>>
            /\ log' = Append(log, [root |-> root, pre |-> pre, post |-> Grads(nodes),
                                   raised |-> TRUE])
            /\ UNCHANGED nodes
       ELSE /\ nodes' = RunBackward(nodes, topo[idx])
            /\ idx' = idx - 1
            /\ ran' = Append(ran, topo[idx])
            /\ UNCHANGED <<err, pc, topo, pre, log>>
    /\ UNCHANGED <<root, last, steps>>

\* The loop is exhausted: backward returns, and its locals die.
BackwardReturn ==
    /\ pc = "rules"
    /\ idx = 0
    /\ pc' = "idle"
    /\ topo' = <<>>
    /\ ran' = <<>>
    /\ pre' = <<>>
    /\ log' = Append(log, [root |-> root, pre |-> pre, post |-> Grads(nodes),
                           raised |-> FALSE])
    /\ UNCHANGED <<nodes, err, root, idx, last, steps>>

\* Every operator of Value and backward, in any order.
Next ==
    \/ steps < MaxSteps /\ LeafCall
    \/ steps < MaxSteps /\ AddCall
    \/ steps < MaxSteps /\ RAddCall
    \/ steps < MaxSteps /\ MulCall
    \/ steps < MaxSteps /\ RMulCall
    \/ steps < MaxSteps /\ NegCall
    \/ steps < MaxSteps /\ SubCall
    \/ steps < MaxSteps /\ RSubCall
    \/ steps < MaxSteps /\ PowCall
    \/ steps < MaxSteps /\ DivCall
    \/ steps < MaxSteps /\ RDivCall
    \/ steps < MaxSteps /\ ExpCall
    \/ steps < MaxSteps /\ TanhCall
    \/ steps < MaxSteps /\ ReluCall
    \/ steps < MaxSteps /\ BackwardCall
    \/ RunRule
    \/ BackwardReturn

Spec == Init /\ [][Next]_vars

\* A graph of leaves, sums, products and relus is built, then differentiated
\* from one of its nodes, repeatedly, with no reset of the gradients.
NextGrad ==
    \/ log = <<>> /\ steps < MaxBuild /\ LeafCall /\ Len(nodes') <= MaxNodes
    \/ log = <<>> /\ steps < MaxBuild /\ AddCall /\ Len(nodes') <= MaxNodes
    \/ log = <<>> /\ steps < MaxBuild /\ MulCall /\ Len(nodes') <= MaxNodes
    \/ log = <<>> /\ steps < MaxBuild /\ ReluCall /\ Len(nodes') <= MaxNodes
    \/ Len(log) < MaxCalls /\ BackwardCall /\ (log = <<>> \/ root' = root)
    \/ RunRule
    \/ BackwardReturn

SpecGrad == Init /\ [][NextGrad]_vars

\* ------------------------------------------------------------- properties

\* The nodes reachable from r through the operand relation.
RECURSIVE Reach(_)
Reach(r) == {r} \cup UNION {Reach(c) : c \in nodes[r].prev}

\* The operands of node c, in the written order.
Opnds(c) ==
    IF nodes[c].op \in {"+", "*"} THEN <<nodes[c].self, nodes[c].other>>
    ELSE IF nodes[c].op = "" THEN <<>>
    ELSE <<nodes[c].self>>

\* The derivative of node c with respect to its i-th operand, for the
\* operators of SpecGrad: 1 for a sum, the other operand's value for a
\* product, 1 or 0 for relu.
LocalD(c, i) ==
    CASE nodes[c].op = "+" -> Rat(1)
      [] nodes[c].op = "*" -> nodes[Opnds(c)[3 - i]].data
      [] nodes[c].op = "relu" -> IF nodes[Opnds(c)[1]].data[1] > 0 THEN Rat(1) ELSE Rat(0)

\* The sum of f[i] over i in 1..k.
RECURSIVE SumTo(_, _)
SumTo(f, k) == IF k = 0 THEN Rat(0) ELSE RAdd(f[k], SumTo(f, k - 1))

\* The sum, over the operand paths from u down to n, of the product of the
\* local derivatives along the path.
RECURSIVE PathSum(_, _)
PathSum(u, n) ==
    IF u = n THEN Rat(1)
    ELSE SumTo([i \in 1..Len(Opnds(u)) |-> RMul(LocalD(u, i), PathSum(Opnds(u)[i], n))],
               Len(Opnds(u)))

\* backward's loop is exhausted: the call is about to return.
AtEnd == pc = "rules" /\ idx = 0

Zero(g) == \A i \in DOMAIN g : g[i] = Rat(0)

AddMulOnly(r) == \A n \in Reach(r) : nodes[n].op \in {"", "+", "*"}

\* y = x*x: the product of a node with itself.
IsSquareOf(y, x) == nodes[y].op = "*" /\ nodes[y].self = x /\ nodes[y].other = x

\* y = x*x + 3 with x = 2.
IsExample(y, x) ==
    /\ nodes[y].op = "+"
    /\ IsSquareOf(nodes[y].self, x)
    /\ nodes[x].op = "" /\ nodes[x].data = Rat(2)
    /\ nodes[nodes[y].other].op = "" /\ nodes[nodes[y].other].data = Rat(3)

\* C1: on a graph of leaves, sums and products, with every gradient 0 before
\* the call, backward(root) leaves in each node reachable from root the sum
\* over the operand paths from root to it of the product of the local
\* derivatives; y = x*x gives x.grad = 2*x.data, and x = 2, y = x*x + 3 gives
\* y.data = 7 and x.grad = 4.
C1_PathSums ==
    (AtEnd /\ Zero(pre) /\ AddMulOnly(root)) =>
        /\ \A n \in Reach(root) : nodes[n].grad = PathSum(root, n)
        /\ \A x \in Ids : IsSquareOf(root, x) =>
              nodes[x].grad = RMul(Rat(2), nodes[x].data)
        /\ \A x \in Ids : IsExample(root, x) =>
              nodes[root].data = Rat(7) /\ nodes[x].grad = Rat(4)

C1_Witness ==
    /\ AtEnd /\ Zero(pre)
    /\ \E x \in Ids : IsExample(root, x) /\ nodes[x].grad = Rat(4)

\* The reachable consumers of n: the nodes reachable from root that have n
\* as an operand.
Consumers(n) == {c \in Reach(root) : n \in nodes[c].prev}

\* C2: during backward(root), a node's rule runs only after the rule of each
\* of its reachable consumers has run.
C2_ConsumersFirst ==
    pc = "rules" =>
        \A i \in 1..Len(ran) : \A c \in Consumers(ran[i]) :
            \E j \in 1..(i - 1) : ran[j] = c

\* A node with two consumers, and a consumer that is itself consumed, ran.
C2_Witness ==
    /\ AtEnd
    /\ \E n \in Reach(root) :
          /\ Cardinality(Consumers(n)) >= 2
          /\ \E c \in Consumers(n) : Consumers(c) # {}
          /\ \E i \in 1..Len(ran) : ran[i] = n

Range(q) == {q[i] : i \in 1..Len(q)}

NoDuplicates(q) == \A i, j \in 1..Len(q) : q[i] = q[j] => i = j

SecondCall ==
    /\ AtEnd
    /\ Len(log) = 1
    /\ log[1].root = root
    /\ ~log[1].raised
    /\ Zero(log[1].pre)

\* The gradient the first call left in node n.
First(n) == log[1].post[n]

\* C4 as stated: after the second call every reachable node, the root
\* included, holds twice the gradient the first call left.
C4_Doubles ==
    SecondCall =>
        \A n \in Reach(root) : nodes[n].grad = RMul(Rat(2), First(n))

\* C4, amended: the second call leaves the root's gradient at the seed 1,
\* doubles the gradient of a node whose only reachable consumer is the root,
\* and triples that of a node all of whose consumers are such nodes.
C4_SecondCall ==
    SecondCall =>
        /\ First(root) = Rat(1)
        /\ nodes[root].grad = Rat(1)
        /\ \A n \in Reach(root) \ {root} :
              /\ Consumers(n) = {root} => nodes[n].grad = RMul(Rat(2), First(n))
              /\ (/\ root \notin Consumers(n)
                  /\ \A c \in Consumers(n) : Consumers(c) = {root})
                 => nodes[n].grad = RMul(Rat(3), First(n))

C4_Witness ==
    /\ SecondCall
    /\ \E n \in Reach(root) \ {root} :
          /\ root \notin Consumers(n)
          /\ \A c \in Consumers(n) : Consumers(c) = {root}
          /\ First(n) # Rat(0)
          /\ nodes[n].grad = RMul(Rat(3), First(n))
    /\ \E n \in Reach(root) \ {root} :
          /\ Consumers(n) = {root}
          /\ First(n) # Rat(0)
          /\ nodes[n].grad = RMul(Rat(2), First(n))

\* C8: relu(a) holds max(0, a.data); the rule of out = relu(a) adds out.grad
\* to a.grad when a.data > 0 and 0 otherwise, a.data = 0 included, so from
\* fresh gradients backward(relu(a)) leaves a.grad = 0 for a.data = -1 and
\* a.data = 0, and a.grad = 1 for a.data = 2.
C8_Relu ==
    /\ \A n \in Ids : nodes[n].op = "relu" =>
          nodes[n].data = IF nodes[nodes[n].self].data[1] > 0
                          THEN nodes[nodes[n].self].data ELSE Rat(0)
    /\ (AtEnd /\ nodes[root].op = "relu") =>
          LET a == nodes[root].self
          IN  /\ nodes[a].grad =
                    RAdd(pre[a], IF nodes[a].data[1] > 0 THEN nodes[root].grad ELSE Rat(0))
              /\ Zero(pre) =>
                    /\ nodes[a].data \in {Rat(-1), Rat(0)} => nodes[a].grad = Rat(0)
                    /\ nodes[a].data = Rat(2) => nodes[a].grad = Rat(1)

C8_Witness ==
    /\ AtEnd /\ Zero(pre)
    /\ nodes[root].op = "relu"
    /\ nodes[nodes[root].self].data = Rat(0)
    /\ nodes[nodes[root].self].grad = Rat(0)
    /\ nodes[root].grad = Rat(1)

\* What the rule of node c adds to the gradient of n, given c's gradient.
Contribution(c, n) ==
    SumTo([i \in 1..Len(Opnds(c)) |->
              IF Opnds(c)[i] = n THEN RMul(nodes[c].grad, LocalD(c, i)) ELSE Rat(0)],
          Len(Opnds(c)))

\* The contributions to n of the nodes of S.
RECURSIVE Contributions(_, _)
Contributions(S, n) ==
    IF S = {} THEN Rat(0)
    ELSE LET c == CHOOSE c \in S : TRUE
         IN  RAdd(Contribution(c, n), Contributions(S \ {c}, n))

\* C9 as stated: every node reachable from root, the root included, ends
\* the call with its gradient before the call plus the contributions of its
\* reachable consumers.
C9_NeverOverwritten ==
    AtEnd =>
        \A n \in Reach(root) :
            nodes[n].grad = RAdd(pre[n], Contributions(Consumers(n), n))

\* C9, amended: the root's gradient is overwritten with the seed 1 whatever
\* it was; every other reachable node ends a call that returns with its
\* gradient before the call plus the contributions of its reachable
\* consumers.
C9_Accumulates ==
    AtEnd =>
        /\ nodes[root].grad = Rat(1)
        /\ \A n \in Reach(root) \ {root} :
              nodes[n].grad = RAdd(pre[n], Contributions(Consumers(n), n))

\* A node with two consumers and a gradient from an earlier call gained more.
C9_Witness ==
    /\ AtEnd
    /\ \E n \in Reach(root) \ {root} :
          /\ Cardinality(Consumers(n)) >= 2
          /\ pre[n] # Rat(0)
          /\ nodes[n].grad # pre[n]
    /\ pre[root] # Rat(0)

\* The value of an operand of the call just made.
Val(y) == IF IsNode(y) THEN nodes[y[2]].data ELSE y[2]

\* The documented forward value of op on the values x and y.
Forward(op, x, y) ==
    CASE op = "add" -> RAdd(x, y)
      [] op = "sub" -> RAdd(x, RNeg(y))
      [] op = "mul" -> RMul(x, y)
      [] op = "div" -> RMul(x, PyPow(y, Rat(-1)))

\* The call just made is an add, subtract, multiply or divide with a raw
\* number on exactly one side, and no zero divisor.
RawCall ==
    /\ last.op \in {"add", "sub", "mul", "div"}
    /\ IsNode(last.lhs) # IsNode(last.rhs)
    /\ last.op = "div" => Val(last.rhs) # Rat(0)

\* C5 as stated: add, subtract, multiply and divide accept a raw number on
\* either side: the call returns a new node holding the forward value, and
\* a fresh leaf with no operands and gradient 0 stands for the raw number.
C5_RawEitherSide ==
    RawCall =>
        /\ err = ""
        /\ last.out = Len(nodes)
        /\ last.out > last.size
        /\ nodes[last.out].data = Forward(last.op, Val(last.lhs), Val(last.rhs))
        /\ \E j \in (last.size + 1)..Len(nodes) :
              nodes[j].op = "" /\ nodes[j].prev = {} /\ nodes[j].grad = Rat(0)

\* C5 without the case number - node: every other raw-operand call succeeds.
C5_ExceptRSub ==
    (RawCall /\ ~(last.op = "sub" /\ ~IsNode(last.lhs))) => C5_RawEitherSide

\* The step is a divide call whose divisor is a node of value zero.
DivByZeroStep ==
    /\ steps' = steps + 1
    /\ last'.op = "div"
    /\ IsNode(last'.rhs)
    /\ nodes[last'.rhs[2]].data = Rat(0)

\* C6: a divide by a node whose value is zero raises to the caller, creates
\* no node and leaves every existing node as it was.
C6_DivByZero ==
    [][DivByZeroStep =>
          /\ err' = "ZeroDivisionError"
          /\ last'.out = 0
          /\ nodes' = nodes]_vars

\* a / b with distinct nodes a and b, b of value zero, raised.
C6_Witness ==
    /\ last.op = "div"
    /\ IsNode(last.lhs) /\ IsNode(last.rhs)
    /\ last.lhs[2] # last.rhs[2]
    /\ nodes[last.rhs[2]].data = Rat(0)
    /\ err = "ZeroDivisionError"
    /\ Len(nodes) = last.size

\* C7 as stated: a negative base raised to a non-integer exponent raises;
\* no node is returned, none holding a complex value in particular.
C7_PowDomainError ==
    (/\ last.op = "pow"
     /\ Val(last.lhs)[1] < 0 /\ ~IsCx(Val(last.lhs))
     /\ last.rhs[2][2] # 1)
    => /\ err # ""
       /\ last.out = 0
       /\ \A n \in Ids : ~IsCx(nodes[n].data)

\* The nodes reachable from r in the heap ns.
RECURSIVE ReachIn(_, _)
ReachIn(ns, r) == {r} \cup UNION {ReachIn(ns, c) : c \in ns[r].prev}

\* C10: a step changes no existing node's value, operands or rule; an
\* operator call leaves every existing node as it was and allocates nodes of
\* gradient 0 only; a step of backward allocates nothing and changes the
\* gradient of no node unreachable from its root.
C10_Frame ==
    [][/\ Len(nodes') >= Len(nodes)
       /\ \A i \in Ids :
             /\ nodes'[i].data = nodes[i].data
             /\ nodes'[i].prev = nodes[i].prev
             /\ [nodes'[i] EXCEPT !.grad = Rat(0)] = [nodes[i] EXCEPT !.grad = Rat(0)]
       /\ (pc = "idle" /\ pc' = "idle") =>
             /\ \A i \in Ids : nodes'[i] = nodes[i]
             /\ \A j \in (Len(nodes) + 1)..Len(nodes') : nodes'[j].grad = Rat(0)
       /\ (pc = "rules" \/ pc' = "rules") =>
             /\ Len(nodes') = Len(nodes)
             /\ \A i \in Ids \ ReachIn(nodes', root') : nodes'[i].grad = nodes[i].grad]_vars

\* An operator call allocated nodes, then backward ran from a root that
\* reaches some nodes and not others, and returned.
C10_Witness ==
    /\ pc = "idle"
    /\ Len(log) = 1
    /\ steps = 3
    /\ \E n \in Ids : nodes[n].op # ""
    /\ \E n \in Ids \ Reach(root) : nodes[n].grad = Rat(0)
    /\ \E n \in Reach(root) \ {root} : nodes[n].grad # Rat(0)

====
